---- MODULE Spec2Model ----
(***************************************************************************)
(* Model of src/app.ts: an Express service over one MongoDB collection.    *)
(* Five handlers: list (GET /api/search), getById (GET /api/search/:id),   *)
(* updateById (PUT /api/edit/:id), deleteMany (DELETE /api/search/multiple)*)
(* and deleteById (DELETE /api/search/:id).                                *)
(*                                                                         *)
(* A handler runs synchronously up to its first await; every store         *)
(* operation is one atomic step of the store; requests interleave at the   *)
(* awaits.  The store is assumed reachable: the only store errors modelled *)
(* are the ones a request itself provokes (a negative or NaN skip/limit,   *)
(* a $set that would change _id).                                          *)
(* The requests carry the numeric and the string filters, page and limit;  *)
(* the title regex (query) and the date range are left out.                *)
(*                                                                         *)
(* Strings are tuples of one-character strings.  A JSON/BSON value is a    *)
(* record [t, k, v, s]: t the type ("str", "num", "oid"), k the kind of a  *)
(* number ("fin", "NaN", "Inf"), v its integer value, s the characters of  *)
(* a string or the lower-case hex form of an ObjectId's 12 bytes.          *)
(***************************************************************************)
EXTENDS Integers, Sequences, FiniteSets, TLC

VARIABLES coll, req, pc, loc, res, called, delOkCount, bulkDeleted

vars == <<coll, req, pc, loc, res, called, delOkCount, bulkDeleted>>

(* ---------------------------- bounds ----------------------------------- *)
NumDocs == 2
MaxIds == 2

(* a 24 character hex string is the only string form new ObjectId accepts *)
HexLen == 24
DefaultPage == 1
DefaultLimit == 20

(* two requests in flight at a time *)
Slots == {1, 2}

(* ---------------------------- values ----------------------------------- *)
Str(s) == [t |-> "str", k |-> "", v |-> 0, s |-> s]
Num(n) == [t |-> "num", k |-> "fin", v |-> n, s |-> <<>>]
NaN == [t |-> "num", k |-> "NaN", v |-> 0, s |-> <<>>]
PosInf == [t |-> "num", k |-> "Inf", v |-> 0, s |-> <<>>]
IsFin(x) == x.t = "num" /\ x.k = "fin"

EmptyMap == [x \in {} |-> NaN]

Digits == <<"0", "1", "2", "3", "4", "5", "6", "7", "8", "9">>
LowerHex == <<"a", "b", "c", "d", "e", "f">>
UpperHex == <<"A", "B", "C", "D", "E", "F">>

RangeOf(f) == {f[i] : i \in DOMAIN f}

(* value of a character as a digit in the radix, -1 when it is none *)
DigitVal(c, radix) ==
    IF c \in RangeOf(Digits)
    THEN (CHOOSE i \in 1..10 : Digits[i] = c) - 1
    ELSE IF radix = 16 /\ c \in RangeOf(LowerHex)
    THEN 9 + (CHOOSE i \in 1..6 : LowerHex[i] = c)
    ELSE IF radix = 16 /\ c \in RangeOf(UpperHex)
    THEN 9 + (CHOOSE i \in 1..6 : UpperHex[i] = c)
    ELSE -1

ToLower(c) ==
    IF c \in RangeOf(UpperHex)
    THEN LowerHex[CHOOSE i \in 1..6 : UpperHex[i] = c]
    ELSE c

(* ---------------------------- parseInt --------------------------------- *)
RECURSIVE SkipWs(_)
SkipWs(s) == IF s # <<>> /\ Head(s) = " " THEN SkipWs(Tail(s)) ELSE s

RECURSIVE DigitRun(_, _, _, _)
(* the longest prefix of digits: [n |-> how many, v |-> their value] *)
DigitRun(s, radix, n, acc) ==
    IF s # <<>> /\ DigitVal(Head(s), radix) >= 0
    THEN DigitRun(Tail(s), radix, n + 1, acc * radix + DigitVal(Head(s), radix))
    ELSE [n |-> n, v |-> acc]

parseInt(str) ==
    LET s0 == SkipWs(str)
        neg == s0 # <<>> /\ Head(s0) = "-"
        s1 == IF s0 # <<>> /\ Head(s0) \in {"-", "+"} THEN Tail(s0) ELSE s0
        hex == Len(s1) >= 2 /\ s1[1] = "0" /\ s1[2] \in {"x", "X"}
        s2 == IF hex THEN Tail(Tail(s1)) ELSE s1
        run == DigitRun(s2, IF hex THEN 16 ELSE 10, 0, 0)
    IN  IF run.n = 0 THEN NaN
        ELSE Num(IF neg THEN 0 - run.v ELSE run.v)

RECURSIVE NatToStr(_)
NatToStr(n) ==
    IF n < 10 THEN <<Digits[n + 1]>>
    ELSE NatToStr(n \div 10) \o <<Digits[(n % 10) + 1]>>

(* ---------------------------- arithmetic ------------------------------- *)
JsSub(a, b) == IF IsFin(a) /\ IsFin(b) THEN Num(a.v - b.v) ELSE NaN
JsMul(a, b) == IF IsFin(a) /\ IsFin(b) THEN Num(a.v * b.v) ELSE NaN

(* mutant: Math.floor in place of Math.ceil *)
JsFloorDiv(total, limitNum) ==
    IF ~IsFin(limitNum) THEN NaN
    ELSE IF limitNum.v = 0 THEN (IF total = 0 THEN NaN ELSE PosInf)
    ELSE IF limitNum.v > 0 THEN Num(total \div limitNum.v)
    ELSE Num(0 - ((total + (0 - limitNum.v) - 1) \div (0 - limitNum.v)))

(* Math.ceil(total / limitNum) for an integer total >= 0 *)
JsCeilDiv(total, limitNum) ==
    IF ~IsFin(limitNum) THEN NaN
    ELSE IF limitNum.v = 0 THEN (IF total = 0 THEN NaN ELSE PosInf)
    ELSE IF limitNum.v > 0 THEN Num(0 - ((0 - total) \div limitNum.v))
    ELSE Num(0 - (total \div (0 - limitNum.v)))

(* ---------------------------- ObjectId --------------------------------- *)
(* ObjectId.isValid(id) for a string *)
isValid(id) ==
    /\ Len(id) = HexLen
    /\ \A i \in 1..Len(id) : DigitVal(id[i], 16) >= 0

(* mutant: a constructor that accepts every string *)
ObjectIdNeverThrows(id) == FALSE

(* new ObjectId(id) throws on a string it cannot convert *)
ObjectIdThrows(id) == ~isValid(id)

(* the ObjectId a string converts to: its bytes, written in lower-case hex *)
ObjectIdOf(id) ==
    [t |-> "oid", k |-> "", v |-> 0, s |-> [i \in 1..Len(id) |-> ToLower(id[i])]]

(* ---------------------------- filter builder --------------------------- *)
NumericKeys == {"end_year", "intensity", "relevance", "likelihood"}
StringKeys == {"sector", "topic", "region", "start_year", "country", "pestle", "source"}

(* a query parameter that is present and not the empty string *)
Truthy(q, k) == k \in DOMAIN q /\ q[k] # <<>>

(* the filters object after lines 69-89 (query and the date range are not
   supplied by the requests of this model) *)
BuildFilters(q) ==
    [k \in {kk \in NumericKeys \cup StringKeys : Truthy(q, kk)} |->
        IF k \in NumericKeys THEN parseInt(q[k]) ELSE Str(q[k])]

(* page = 1 and limit = 20 when the parameter is undefined; parseInt of the
   number reads its decimal form *)
PageRaw(q) == IF "page" \in DOMAIN q THEN q["page"] ELSE NatToStr(DefaultPage)
LimitRaw(q) == IF "limit" \in DOMAIN q THEN q["limit"] ELSE NatToStr(DefaultLimit)
PageNum(q) == parseInt(PageRaw(q))
LimitNum(q) == parseInt(LimitRaw(q))
Skip(q) == JsMul(JsSub(PageNum(q), Num(1)), LimitNum(q))

(* ---------------------------- the store -------------------------------- *)
Min(a, b) == IF a < b THEN a ELSE b
Max(a, b) == IF a > b THEN a ELSE b
Abs(a) == IF a < 0 THEN 0 - a ELSE a

Matches(doc, filters) ==
    \A k \in DOMAIN filters : k \in DOMAIN doc /\ doc[k] = filters[k]

Matching(c, filters) == SelectSeq(c, LAMBDA d : Matches(d, filters))

countDocuments(c, filters) == Len(Matching(c, filters))

(* mutant: the cursor without .skip(skip) *)
findNoSkip(c, filters, skip, limitNum, lenient) ==
    LET m == Matching(c, filters)
        lm == IF IsFin(limitNum) THEN limitNum.v ELSE 0
        n == IF lm = 0 THEN Len(m) ELSE Abs(lm)
        threw == (~IsFin(skip) \/ ~IsFin(limitNum)) /\ ~lenient
    IN  [threw |-> threw,
         docs |-> IF threw THEN <<>> ELSE SubSeq(m, 1, Min(Len(m), n))]

(* find(filters).skip(skip).limit(limitNum).toArray(): a negative skip is
   rejected, limit 0 is no limit, a negative limit is its absolute value.
   What a NaN skip or limit does is the server's choice: rejected, or read
   as 0 when lenient. *)
find(c, filters, skip, limitNum, lenient) ==
    LET m == Matching(c, filters)
        sk == IF IsFin(skip) THEN skip.v ELSE 0
        lm == IF IsFin(limitNum) THEN limitNum.v ELSE 0
        n == IF lm = 0 THEN Len(m) ELSE Abs(lm)
        threw == \/ sk < 0
                 \/ (~IsFin(skip) \/ ~IsFin(limitNum)) /\ ~lenient
    IN  [threw |-> threw,
         docs |-> IF threw THEN <<>> ELSE SubSeq(m, sk + 1, Min(Len(m), sk + n))]

IdsOf(c) == {c[i]["_id"] : i \in DOMAIN c}

findOne(c, oid) == SelectSeq(c, LAMBDA d : d["_id"] = oid)

(* mutant: the update document replaces the stored one *)
MergeReplace(doc, body) ==
    [k \in {"_id"} \cup DOMAIN body |-> IF k = "_id" THEN doc["_id"] ELSE body[k]]

(* $set: the supplied keys take the supplied values, the others stay *)
Merge(doc, body) ==
    [k \in DOMAIN doc \cup DOMAIN body |->
        IF k \in DOMAIN body THEN body[k] ELSE doc[k]]

(* mutant: updateOne with upsert: true *)
updateOneUpsert(c, oid, body) ==
    LET all == {i \in DOMAIN c : c[i]["_id"] = oid}
        hit == {i \in all : \A j \in all : i <= j}
        threw == \E i \in hit : "_id" \in DOMAIN body /\ body["_id"] # c[i]["_id"]
    IN  [threw |-> threw,
         matchedCount |-> IF threw THEN 0 ELSE Cardinality(hit),
         coll |-> IF threw THEN c
                  ELSE IF hit = {}
                  THEN Append(c, [k \in {"_id"} \cup DOMAIN body |->
                                     IF k = "_id" THEN oid ELSE body[k]])
                  ELSE [i \in DOMAIN c |->
                          IF i \in hit
                          THEN [k \in DOMAIN c[i] \cup DOMAIN body |->
                                  IF k \in DOMAIN body THEN body[k] ELSE c[i][k]]
                          ELSE c[i]]]

(* updateOne({_id: oid}, {$set: body}), no upsert; _id is immutable: a $set
   that would give a matched document another _id is rejected *)
updateOne(c, oid, body) ==
    LET all == {i \in DOMAIN c : c[i]["_id"] = oid}
        hit == {i \in all : \A j \in all : i <= j}
        threw == \E i \in hit : "_id" \in DOMAIN body /\ body["_id"] # c[i]["_id"]
    IN  [threw |-> threw,
         matchedCount |-> IF threw THEN 0 ELSE Cardinality(hit),
         coll |-> IF threw THEN c
                  ELSE [i \in DOMAIN c |-> IF i \in hit THEN Merge(c[i], body) ELSE c[i]]]

(* deleteOne({_id: oid}) *)
deleteOne(c, oid) ==
    LET rest == SelectSeq(c, LAMBDA d : d["_id"] # oid)
    IN  [deletedCount |-> Len(c) - Len(rest), coll |-> rest]

(* deleteMany({_id: {$in: oids}}) *)
deleteMany(c, oids) ==
    LET rest == SelectSeq(c, LAMBDA d : d["_id"] \notin oids)
    IN  [deletedCount |-> Len(c) - Len(rest), coll |-> rest]

(* ---------------------------- requests --------------------------------- *)
IdOf(c) == [i \in 1..HexLen |-> c]
Africa == <<"A", "f", "r", "i", "c", "a">>
Asia == <<"A", "s", "i", "a">>

(* the i-th document of the bulk load *)
Doc(i) ==
    ("_id" :> ObjectIdOf(IdOf(LowerHex[i]))) @@ ("region" :> Str(Africa))
        @@ ("intensity" :> Num(2 + i))

InitColl == [i \in 1..NumDocs |-> Doc(i)]
InitOids == IdsOf(InitColl)

DocIds == {IdOf(LowerHex[i]) : i \in 1..NumDocs}

(* ids of the stored documents, an upper-case spelling of the first, a
   well-formed id of no document, and two malformed ids *)
IdInputs == DocIds \cup {IdOf("A"), IdOf("0"), IdOf("g"), <<"a", "b", "c">>}

RECURSIVE SeqsUpTo(_, _)
SeqsUpTo(S, n) ==
    IF n = 0 THEN {<<>>}
    ELSE LET shorter == SeqsUpTo(S, n - 1)
         IN  shorter \cup {Append(q, x) : q \in shorter, x \in S}

(* lists over the first and the last document's id and a malformed id *)
IdListInputs ==
    SeqsUpTo({IdOf(LowerHex[1]), IdOf(LowerHex[NumDocs]), IdOf("g")}, MaxIds)

BodyInputs ==
    { EmptyMap,
      ("region" :> Str(Asia)) @@ ("note" :> Str(<<"x">>)),
      ("_id" :> Str(IdOf("b"))) @@ ("region" :> Str(Asia)) }

QueryInputs ==
    { EmptyMap,
      ("region" :> Africa) @@ ("limit" :> <<"1">>) @@ ("page" :> <<"2">>),
      ("region" :> Africa) @@ ("limit" :> <<"1">>) @@ ("page" :> <<"0", "x", "3">>),
      ("intensity" :> <<"3", "p", "x">>) @@ ("sector" :> <<>>) @@ ("limit" :> <<"2">>),
      ("intensity" :> <<"a", "b", "c">>) @@ ("relevance" :> <<"x">>)
          @@ ("likelihood" :> <<"-">>) @@ ("end_year" :> <<" ", "y">>),
      ("page" :> <<"0">>) @@ ("limit" :> <<>>),
      "limit" :> <<"0">>,
      "limit" :> <<"-", "1">>,
      ("region" :> Asia) @@ ("limit" :> <<"1">>) }

NoReq == [op |-> "none", id |-> <<>>, ids |-> <<>>, isArray |-> FALSE,
          body |-> EmptyMap, query |-> EmptyMap]
NoLoc == [filters |-> EmptyMap, pageNum |-> NaN, limitNum |-> NaN, skip |-> NaN,
          total |-> 0, oid |-> NaN, oids |-> {}, dirty |-> {}, live |-> FALSE, pre |-> FALSE]
NoRes == [status |-> 0, totalRecords |-> 0, totalPages |-> NaN, currentPage |-> NaN,
          articles |-> <<>>, deletedCount |-> 0]

Reply(code) == [NoRes EXCEPT !.status = code]

Init ==
    /\ coll = InitColl
    /\ req = [s \in Slots |-> NoReq]
    /\ pc = [s \in Slots |-> "idle"]
    /\ loc = [s \in Slots |-> NoLoc]
    /\ res = [s \in Slots |-> NoRes]
    /\ called = [s \in Slots |-> FALSE]
    /\ delOkCount = [o \in InitOids |-> 0]
    /\ bulkDeleted = {}

(* Close(s) drops a finished request: its response has left the server.  It
   changes nothing another request can read, so it is taken right after the
   step that finished the request (Quiet), before any other step. *)
Quiet == \A t \in Slots : pc[t] # "done"
Free(s) == pc[s] = "idle" /\ Quiet

Close(s) ==
    /\ pc[s] = "done"
    /\ req' = [req EXCEPT ![s] = NoReq]
    /\ pc' = [pc EXCEPT ![s] = "idle"]
    /\ loc' = [loc EXCEPT ![s] = NoLoc]
    /\ res' = [res EXCEPT ![s] = NoRes]
    /\ called' = [called EXCEPT ![s] = FALSE]
    /\ UNCHANGED <<coll, delOkCount, bulkDeleted>>

(* a request answered before any await *)
Answer(s, r, code) ==
    /\ req' = [req EXCEPT ![s] = r]
    /\ pc' = [pc EXCEPT ![s] = "done"]
    /\ loc' = [loc EXCEPT ![s] = NoLoc]
    /\ res' = [res EXCEPT ![s] = Reply(code)]
    /\ called' = [called EXCEPT ![s] = FALSE]
    /\ UNCHANGED <<coll, delOkCount, bulkDeleted>>

(* a request that has issued its store call and awaits it *)
Await(s, r, l, at) ==
    /\ req' = [req EXCEPT ![s] = r]
    /\ pc' = [pc EXCEPT ![s] = at]
    /\ loc' = [loc EXCEPT ![s] = l]
    /\ res' = [res EXCEPT ![s] = NoRes]
    /\ called' = [called EXCEPT ![s] = TRUE]
    /\ UNCHANGED <<coll, delOkCount, bulkDeleted>>

(* history: a list request between its two reads records the operations that
   changed the collection meanwhile *)
Dirtied(l, c, op) ==
    [s \in Slots |->
        IF pc[s] = "find" /\ c # coll THEN [l[s] EXCEPT !.dirty = @ \cup {op}] ELSE l[s]]

(* ---------------------------- GET /api/search -------------------------- *)
ListStart(s, q) ==
    /\ Free(s)
    /\ Await(s, [NoReq EXCEPT !.op = "list", !.query = q],
             [NoLoc EXCEPT !.filters = BuildFilters(q), !.pageNum = PageNum(q),
                           !.limitNum = LimitNum(q), !.skip = Skip(q)],
             "count")

ListCount(s) ==
    /\ pc[s] = "count" /\ Quiet
    /\ pc' = [pc EXCEPT ![s] = "find"]
    /\ loc' = [loc EXCEPT ![s].total = countDocuments(coll, loc[s].filters)]
    /\ UNCHANGED <<coll, req, res, called, delOkCount, bulkDeleted>>

ListReply(l, docs) ==
    [NoRes EXCEPT !.status = 200,
                  !.totalRecords = l.total,
                  !.totalPages = JsCeilDiv(l.total, l.limitNum),
                  !.currentPage = l.pageNum,
                  !.articles = docs]

ListFind(s) ==
    /\ pc[s] = "find" /\ Quiet
    /\ \E lenient \in BOOLEAN :
        LET r == find(coll, loc[s].filters, loc[s].skip, loc[s].limitNum, lenient)
        IN  res' = [res EXCEPT ![s] = IF r.threw THEN Reply(500)
                                      ELSE ListReply(loc[s], r.docs)]
    /\ pc' = [pc EXCEPT ![s] = "done"]
    /\ UNCHANGED <<coll, req, loc, called, delOkCount, bulkDeleted>>

(* ---------------------------- GET /api/search/:id ---------------------- *)
GetByIdStart(s, id) ==
    /\ Free(s)
    /\ LET r == [NoReq EXCEPT !.op = "getById", !.id = id]
       IN  IF ObjectIdThrows(id)
           THEN Answer(s, r, 500)
           ELSE Await(s, r, [NoLoc EXCEPT !.oid = ObjectIdOf(id)], "findOne")

GetByIdStore(s) ==
    /\ pc[s] = "findOne" /\ Quiet
    /\ LET expense == findOne(coll, loc[s].oid)
       IN  res' = [res EXCEPT ![s] = IF expense = <<>> THEN Reply(404)
                                     ELSE [Reply(200) EXCEPT !.articles = expense]]
    /\ pc' = [pc EXCEPT ![s] = "done"]
    /\ UNCHANGED <<coll, req, loc, called, delOkCount, bulkDeleted>>

(* ---------------------------- PUT /api/edit/:id ------------------------ *)
UpdateStart(s, id, body) ==
    /\ Free(s)
    /\ LET r == [NoReq EXCEPT !.op = "updateById", !.id = id, !.body = body]
       IN  IF ~isValid(id) THEN Answer(s, r, 400)
           ELSE IF ObjectIdThrows(id) THEN Answer(s, r, 500)
           ELSE Await(s, r, [NoLoc EXCEPT !.oid = ObjectIdOf(id)], "updateOne")

UpdateReply(result) ==
    IF result.threw THEN Reply(500)
    ELSE IF result.matchedCount = 0 THEN Reply(404)
    ELSE Reply(200)

UpdateStore(s) ==
    /\ pc[s] = "updateOne" /\ Quiet
    /\ LET result == updateOne(coll, loc[s].oid, req[s].body)
       IN  /\ coll' = result.coll
           /\ res' = [res EXCEPT ![s] = UpdateReply(result)]
           /\ loc' = Dirtied(loc, result.coll, "updateById")
    /\ pc' = [pc EXCEPT ![s] = "done"]
    /\ UNCHANGED <<req, called, delOkCount, bulkDeleted>>

(* ---------------------------- DELETE /api/search/multiple -------------- *)
(* mutant: only the first id of the list is checked *)
InvalidFirstId(isArray, ids) ==
    ~isArray \/ (ids # <<>> /\ ~isValid(ids[1]))

(* !Array.isArray(ids) || ids.some(id => !ObjectId.isValid(id)) *)
InvalidIdList(isArray, ids) ==
    ~isArray \/ \E i \in DOMAIN ids : ~isValid(ids[i])

DeleteManyStart(s, isArray, ids) ==
    /\ Free(s)
    /\ LET r == [NoReq EXCEPT !.op = "deleteMany", !.ids = ids, !.isArray = isArray]
       IN  IF InvalidIdList(isArray, ids) THEN Answer(s, r, 400)
           ELSE IF \E i \in DOMAIN ids : ObjectIdThrows(ids[i]) THEN Answer(s, r, 500)
           ELSE Await(s, r, [NoLoc EXCEPT !.oids = {ObjectIdOf(ids[i]) : i \in DOMAIN ids}],
                      "deleteMany")

DeleteManyStore(s) ==
    /\ pc[s] = "deleteMany" /\ Quiet
    /\ LET result == deleteMany(coll, loc[s].oids)
       IN  /\ coll' = result.coll
           /\ res' = [res EXCEPT ![s] =
                        [Reply(200) EXCEPT !.deletedCount = result.deletedCount]]
           /\ loc' = Dirtied(loc, result.coll, "deleteMany")
           /\ bulkDeleted' = bulkDeleted \cup (IdsOf(coll) \ IdsOf(result.coll))
    /\ pc' = [pc EXCEPT ![s] = "done"]
    /\ UNCHANGED <<req, called, delOkCount>>

(* ---------------------------- DELETE /api/search/:id ------------------- *)
DeleteStart(s, id) ==
    /\ Free(s)
    /\ LET r == [NoReq EXCEPT !.op = "deleteById", !.id = id]
       IN  IF ~isValid(id) THEN Answer(s, r, 400)
           ELSE IF ObjectIdThrows(id) THEN Answer(s, r, 500)
           ELSE Await(s, r, [NoLoc EXCEPT !.oid = ObjectIdOf(id),
                                          !.live = ObjectIdOf(id) \in IdsOf(coll)],
                      "deleteOne")

(* mutant: deletedCount is not looked at *)
DeleteReplyAlwaysOk(result) == Reply(200)

DeleteReply(result) ==
    IF result.deletedCount = 0 THEN Reply(404) ELSE Reply(200)

DeleteStore(s) ==
    /\ pc[s] = "deleteOne" /\ Quiet
    /\ LET result == deleteOne(coll, loc[s].oid)
           o == loc[s].oid
       IN  /\ coll' = result.coll
           /\ res' = [res EXCEPT ![s] = DeleteReply(result)]
           /\ loc' = [Dirtied(loc, result.coll, "deleteById") EXCEPT
                        ![s].pre = o \in IdsOf(coll)]
           /\ delOkCount' =
                IF DeleteReply(result).status = 200 /\ o \in DOMAIN delOkCount
                THEN [delOkCount EXCEPT ![o] = Min(2, @ + 1)]
                ELSE delOkCount
    /\ pc' = [pc EXCEPT ![s] = "done"]
    /\ UNCHANGED <<req, called, bulkDeleted>>

(* ---------------------------- the service ------------------------------ *)
Next ==
    \E s \in Slots :
        \/ \E q \in QueryInputs : ListStart(s, q)
        \/ ListCount(s)
        \/ ListFind(s)
        \/ \E id \in IdInputs : GetByIdStart(s, id)
        \/ GetByIdStore(s)
        \/ \E id \in IdInputs, body \in BodyInputs : UpdateStart(s, id, body)
        \/ UpdateStore(s)
        \/ \E ids \in IdListInputs : DeleteManyStart(s, TRUE, ids)
        \/ DeleteManyStart(s, FALSE, <<>>)
        \/ DeleteManyStore(s)
        \/ \E id \in IdInputs : DeleteStart(s, id)
        \/ DeleteStore(s)
        \/ Close(s)

Spec == Init /\ [][Next]_vars

(* ---------------------------- properties ------------------------------- *)
Done(s, op) == pc[s] = "done" /\ req[s].op = op
Malformed(ids) == \E i \in DOMAIN ids : ~isValid(ids[i])

(* C1: getById with a malformed id always answers 400 and issues no store
   call. *)
C1_GetByIdMalformedIs400 ==
    \A s \in Slots :
        Done(s, "getById") /\ ~isValid(req[s].id) =>
            res[s].status = 400 /\ ~called[s]

(* C2: deleteMany with a list holding at least one malformed id answers 400
   in the step that receives it, issues no store call and leaves the
   collection as it was. *)
C2_DeleteManyGate ==
    [][\A s \in Slots :
          (/\ pc[s] = "idle" /\ pc'[s] # "idle"
           /\ req'[s].op = "deleteMany"
           /\ req'[s].isArray /\ Malformed(req'[s].ids))
          => (/\ pc'[s] = "done"
              /\ res'[s].status = 400
              /\ ~called'[s]
              /\ coll' = coll)]_vars

(* C2 witness: a rejected list with a malformed id beside the id of a stored
   document, which is still stored. *)
C2_Witness ==
    \E s \in Slots :
        /\ Done(s, "deleteMany") /\ res[s].status = 400
        /\ Malformed(req[s].ids)
        /\ \E j \in DOMAIN req[s].ids :
              isValid(req[s].ids[j]) /\ ObjectIdOf(req[s].ids[j]) \in IdsOf(coll)

(* C3: a store call is issued only for requests all of whose identifiers are
   well formed, in getById, updateById, deleteById and deleteMany. *)
C3_NoStoreCallOnMalformedId ==
    \A s \in Slots :
        called[s] =>
            /\ req[s].op \in {"getById", "updateById", "deleteById"} => isValid(req[s].id)
            /\ req[s].op = "deleteMany" => req[s].isArray /\ ~Malformed(req[s].ids)

(* C3 witness: a getById with a malformed id has been answered without a
   store call. *)
C3_Witness ==
    \E s \in Slots :
        Done(s, "getById") /\ ~isValid(req[s].id) /\ ~called[s] /\ res[s].status # 0

(* C4: a non-empty numeric parameter that does not parse as an integer puts
   no condition on its field into the filter. *)
C4_UnparseableNumericIsAbsent ==
    \A s \in Slots :
        req[s].op = "list" =>
            \A k \in NumericKeys :
                Truthy(req[s].query, k) /\ parseInt(req[s].query[k]) = NaN
                    => k \notin DOMAIN loc[s].filters

(* the least integer n with n * limit >= total, as Math.ceil(total / limit)
   yields it: NaN and Infinity where the quotient is *)
IsCeilOf(p, total, limitNum) ==
    IF ~IsFin(limitNum) THEN p = NaN
    ELSE IF limitNum.v = 0 THEN p = (IF total = 0 THEN NaN ELSE PosInf)
    ELSE IF limitNum.v > 0
    THEN IsFin(p) /\ (p.v - 1) * limitNum.v < total /\ total <= p.v * limitNum.v
    ELSE IsFin(p) /\ (p.v - 1) * limitNum.v > total /\ total >= p.v * limitNum.v

Envelope(s) ==
    res[s].status = 200 =>
        /\ res[s].totalRecords = loc[s].total
        /\ IsCeilOf(res[s].totalPages, res[s].totalRecords, loc[s].limitNum)
        /\ res[s].currentPage = loc[s].pageNum
        /\ loc[s].skip = JsMul(JsSub(res[s].currentPage, Num(1)), loc[s].limitNum)

BeyondLastPage(s) == IsFin(loc[s].skip) /\ loc[s].skip.v >= loc[s].total

(* C5 as stated: every list envelope has totalPages = ceil(totalRecords /
   limit) and currentPage = page, and a page beyond the last one is answered
   200 with no articles. *)
C5_Original ==
    \A s \in Slots :
        Done(s, "list") =>
            /\ Envelope(s)
            /\ BeyondLastPage(s) => res[s].status = 200 /\ res[s].articles = <<>>

(* C5 amended: the same, the empty page being promised only when no write
   changed the collection between the count and the find. *)
C5_Amended ==
    \A s \in Slots :
        Done(s, "list") =>
            /\ Envelope(s)
            /\ BeyondLastPage(s) /\ loc[s].dirty = {}
                  => res[s].status = 200 /\ res[s].articles = <<>>

(* C5 witness: a page beyond the last page of a non-empty result. *)
C5_Witness ==
    \E s \in Slots :
        /\ Done(s, "list") /\ res[s].status = 200
        /\ BeyondLastPage(s) /\ loc[s].dirty = {}
        /\ res[s].totalRecords > 0 /\ res[s].articles = <<>>
        /\ IsFin(res[s].totalPages) /\ res[s].totalPages.v > 1

(* C6: the pagination descriptor of every list request has integers
   page >= 1 and limit >= 1, the defaults 1 and 20 when not supplied, and
   a skip that is an integer >= 0. *)
C6_PaginationDescriptor ==
    \A s \in Slots :
        req[s].op = "list" =>
            /\ IsFin(loc[s].pageNum) /\ loc[s].pageNum.v >= 1
            /\ IsFin(loc[s].limitNum) /\ loc[s].limitNum.v >= 1
            /\ "page" \notin DOMAIN req[s].query => loc[s].pageNum = Num(DefaultPage)
            /\ "limit" \notin DOMAIN req[s].query => loc[s].limitNum = Num(DefaultLimit)
            /\ IsFin(loc[s].skip) /\ loc[s].skip.v >= 0

(* C7: deleteById answers 200 exactly when the document was stored at its
   deleteOne and 404 otherwise; the document is gone afterwards and never
   returns; so no id is confirmed deleted twice, and a document that left
   the collection other than by deleteMany was confirmed exactly once, also
   with two deleteById of the id in flight together. *)
C7_DeleteOnce ==
    /\ IdsOf(coll) \subseteq InitOids
    /\ \A o \in InitOids :
          /\ delOkCount[o] <= 1
          /\ delOkCount[o] = 1 => o \notin IdsOf(coll)
          /\ o \notin IdsOf(coll) /\ o \notin bulkDeleted => delOkCount[o] = 1
    /\ \A s \in Slots :
          Done(s, "deleteById") /\ isValid(req[s].id) =>
              /\ res[s].status = (IF loc[s].pre THEN 200 ELSE 404)
              /\ loc[s].oid \notin IdsOf(coll)

(* C7 witness: a deleteById received while the document was stored is
   answered 404 because another deleteById was answered 200 meanwhile. *)
C7_Witness ==
    \E s \in Slots :
        /\ Done(s, "deleteById") /\ res[s].status = 404
        /\ loc[s].live
        /\ loc[s].oid \in InitOids
        /\ delOkCount[loc[s].oid] = 1 /\ loc[s].oid \notin bulkDeleted

(* C8: an updateOne for an id no document has answers 404 and leaves the
   collection as it was, whatever the body. *)
C8_UpdateMissingIs404 ==
    [][\A s \in Slots :
          (pc[s] = "updateOne" /\ pc'[s] = "done" /\ loc[s].oid \notin IdsOf(coll))
              => res'[s].status = 404 /\ coll' = coll]_vars

(* C8 witness: a 404 for a non-empty body while documents are stored. *)
C8_Witness ==
    \E s \in Slots :
        /\ Done(s, "updateById") /\ res[s].status = 404
        /\ req[s].body # EmptyMap /\ coll # <<>>
        /\ loc[s].oid \notin IdsOf(coll)

UniqueIds == \A i, j \in DOMAIN coll : coll[i]["_id"] = coll[j]["_id"] => i = j

(* C9: an update answered 200 gives the target document the supplied
   values for the supplied keys and leaves its other fields; an update
   answered otherwise changes nothing; no update changes another document,
   the number or order of documents, or any _id; ids stay unique. *)
C9_PartialMerge ==
    /\ []UniqueIds
    /\ [][\A s \in Slots :
            (pc[s] = "updateOne" /\ pc'[s] = "done") =>
                /\ Len(coll') = Len(coll)
                /\ \A i \in DOMAIN coll :
                      /\ coll'[i]["_id"] = coll[i]["_id"]
                      /\ coll[i]["_id"] # loc[s].oid => coll'[i] = coll[i]
                      /\ coll[i]["_id"] = loc[s].oid /\ res'[s].status = 200 =>
                            /\ DOMAIN coll'[i] = DOMAIN coll[i] \cup DOMAIN req[s].body
                            /\ \A k \in DOMAIN req[s].body : coll'[i][k] = req[s].body[k]
                            /\ \A k \in DOMAIN coll[i] \ DOMAIN req[s].body :
                                  coll'[i][k] = coll[i][k]
                /\ res'[s].status # 200 => coll' = coll
                /\ res'[s].status = 200 => loc[s].oid \in IdsOf(coll)]_vars

(* C9 witness: an update answered 200 whose document holds the added key
   beside a field the body did not name. *)
C9_Witness ==
    \E s \in Slots, i \in DOMAIN coll :
        /\ Done(s, "updateById") /\ res[s].status = 200
        /\ coll[i]["_id"] = loc[s].oid
        /\ "note" \in DOMAIN req[s].body /\ "note" \in DOMAIN coll[i]
        /\ "intensity" \notin DOMAIN req[s].body /\ "intensity" \in DOMAIN coll[i]

PageLength(s) ==
    Min(loc[s].limitNum.v, Max(0, res[s].totalRecords - loc[s].skip.v))

ValidPaging(s) ==
    /\ IsFin(loc[s].pageNum) /\ loc[s].pageNum.v >= 1
    /\ IsFin(loc[s].limitNum) /\ loc[s].limitNum.v >= 1

(* C10: with page >= 1 and limit >= 1 and no write between the count and
   the find, the list answers 200 with
   min(limit, max(0, totalRecords - (page - 1) * limit)) articles. *)
C10_PageLengthWhenUndisturbed ==
    \A s \in Slots :
        Done(s, "list") /\ ValidPaging(s) /\ loc[s].dirty = {} =>
            res[s].status = 200 /\ Len(res[s].articles) = PageLength(s)

(* C10 witness: a write between the two reads makes the page disagree with
   totalRecords. *)
C10_Witness ==
    \E s \in Slots :
        /\ Done(s, "list") /\ ValidPaging(s) /\ res[s].status = 200
        /\ loc[s].dirty # {}
        /\ Len(res[s].articles) # PageLength(s)

====
